---- MODULE Spec2Model ----
(***************************************************************************)
(* A model of muijf/filterkit: the core matcher and projector              *)
(* (getMatches, filter), the options-aware object filter and the           *)
(* range-aware object filter.                                              *)
(*                                                                         *)
(* JavaScript strings are sequences of one-character strings, so that the  *)
(* lexer, split, join, includes and the range regex are modelled by what   *)
(* they do to the characters.  JavaScript values are pairs <<tag, n>>:     *)
(*   <<"ref", a>>   a container (plain object or array) at heap address a  *)
(*   <<"num", n>>   the number n                                           *)
(*   <<"null", 0>>  null          <<"undef", 0>>  undefined                *)
(* The heap is a sequence of containers; a container has a kind ("obj" or  *)
(* "arr") and a finite map from keys (strings) to values.  Identity of a   *)
(* container is its address, so aliasing between a result and the source   *)
(* is visible.                                                             *)
(***************************************************************************)
EXTENDS Integers, Sequences, FiniteSets, TLC

VARIABLES heap, src, call, res, pc, before

vars == <<heap, src, call, res, pc, before>>

(***************************************************************************)
(* Strings                                                                 *)
(***************************************************************************)

\* s.includes(sub)
Includes(s, sub) ==
  \E i \in 1..(Len(s) - Len(sub) + 1) : SubSeq(s, i, i + Len(sub) - 1) = sub

\* the first index at or after `from` where `sub` occurs in s, 0 when none
IndexOfFrom(s, sub, from) ==
  LET hits == {i \in from..(Len(s) - Len(sub) + 1) :
                 SubSeq(s, i, i + Len(sub) - 1) = sub}
  IN IF hits = {} THEN 0 ELSE CHOOSE i \in hits : \A j \in hits : i <= j

\* s.split(sep) for a non-empty separator: the pieces between occurrences
RECURSIVE Split(_, _)
Split(s, sep) ==
  LET i == IndexOfFrom(s, sep, 1)
  IN IF i = 0 THEN <<s>>
     ELSE <<SubSeq(s, 1, i - 1)>> \o Split(SubSeq(s, i + Len(sep), Len(s)), sep)

\* parts.join(sep)
RECURSIVE Join(_, _)
Join(parts, sep) ==
  IF parts = <<>> THEN <<>>
  ELSE IF Len(parts) = 1 THEN parts[1]
  ELSE parts[1] \o sep \o Join(Tail(parts), sep)

\* array.filter(Boolean) on an array of strings: drops the empty strings
FilterBoolean(parts) == SelectSeq(parts, LAMBDA p : p # <<>>)

Dot == <<".">>
Star == <<"*">>
StarStar == <<"*", "*">>

(***************************************************************************)
(* Values and the heap                                                     *)
(***************************************************************************)

Null == <<"null", 0>>
Undefined == <<"undef", 0>>
Num(n) == <<"num", n>>
Ref(a) == <<"ref", a>>

IsRef(v) == v[1] = "ref"
\* v === null || v === undefined   (also v == null)
IsNullish(v) == v[1] \in {"null", "undef"}
\* typeof v === "object" && v !== null
IsObjectLike(v) == IsRef(v)

EmptyMap == [k \in {} |-> Null]
NewObject == [kind |-> "obj", val |-> EmptyMap]

\* obj[key] = v on the container at address a
Store(h, a, key, v) ==
  [h EXCEPT ![a].val = [k \in (DOMAIN h[a].val) \cup {key} |->
                          IF k = key THEN v ELSE h[a].val[k]]]

\* the own enumerable keys of a container
OwnKeys(h, v) == DOMAIN h[v[2]].val

LengthKey == <<"l", "e", "n", "g", "t", "h">>

\* key in v, for a container v (an array also has "length")
HasKey(h, v, key) ==
  \/ key \in OwnKeys(h, v)
  \/ h[v[2]].kind = "arr" /\ key = LengthKey

\* v[key] for a container v: undefined when the key is missing
Get(h, v, key) ==
  IF key \in OwnKeys(h, v) THEN h[v[2]].val[key]
  ELSE IF h[v[2]].kind = "arr" /\ key = LengthKey
       THEN Num(Cardinality(OwnKeys(h, v)))
  ELSE Undefined

\* a set as a sequence, in a fixed order (the order for...in visits keys)
RECURSIVE SetToSeq(_)
SetToSeq(S) ==
  IF S = {} THEN <<>>
  ELSE LET x == CHOOSE y \in S : TRUE IN <<x>> \o SetToSeq(S \ {x})

\* for (const key in v) with hasOwnProperty / Object.keys(v)
KeysOf(h, v) == SetToSeq(OwnKeys(h, v))

(***************************************************************************)
(* Deep values.  The deep value of v is the set of <<path, tag, n>>, one   *)
(* entry for v itself (path <<>>) and one for every value below it; two    *)
(* values deep-equal (toEqual) iff their deep values are equal.  A         *)
(* property holding undefined counts as missing, as toEqual counts it.     *)
(***************************************************************************)

Under(key, entries) == {<<(<<key>> \o e[1]), e[2], e[3]>> : e \in entries}

RECURSIVE Deep(_, _)
Deep(h, v) ==
  IF IsRef(v)
  THEN {<<(<<>>), h[v[2]].kind, 0>>} \cup
       UNION {Under(k, Deep(h, h[v[2]].val[k])) :
                k \in {x \in OwnKeys(h, v) : h[v[2]].val[x] # Undefined}}
  ELSE {<<(<<>>), v[1], v[2]>>}

DeepEqual(h1, v1, h2, v2) == Deep(h1, v1) = Deep(h2, v2)

\* the addresses of the containers reachable from v, v's own included
RECURSIVE Reach(_, _)
Reach(h, v) ==
  IF IsRef(v)
  THEN {v[2]} \cup UNION {Reach(h, h[v[2]].val[k]) : k \in OwnKeys(h, v)}
  ELSE {}

\* the key paths of a deep value, the empty path of the root excluded
PathsOf(d) == {e[1] : e \in d} \ {<<>>}

(***************************************************************************)
(* Source trees.  A tree is drawn as a deep value with a bounded number of *)
(* entries below the root and then laid out on a fresh heap.  MaxNodes is  *)
(* the largest such number over plain keys; the trees that also use a key  *)
(* holding the separator character have one entry less.                    *)
(***************************************************************************)

MaxNodes == 4

Size(d) == Cardinality(d) - 1

RECURSIVE ObjectsOver(_, _, _, _)
RECURSIVE ValuesOver(_, _, _)
\* the entry sets (root excluded) of the objects with keys among ks
ObjectsOver(ks, allKeys, leaves, n) ==
  IF ks = <<>> THEN {{}}
  ELSE LET rest == ObjectsOver(Tail(ks), allKeys, leaves, n)
       IN rest \cup
          (IF n = 0 THEN {}
           ELSE UNION {{Under(Head(ks), sub) \cup r :
                          r \in ObjectsOver(Tail(ks), allKeys, leaves,
                                            n - 1 - Size(sub))} :
                       sub \in ValuesOver(allKeys, leaves, n - 1)})
ValuesOver(allKeys, leaves, n) ==
  {{<<(<<>>), l[1], l[2]>>} : l \in leaves} \cup
  {{<<(<<>>), "obj", 0>>} \cup o : o \in ObjectsOver(allKeys, allKeys, leaves, n)}

TreesOver(allKeys, leaves, n) ==
  {{<<(<<>>), "obj", 0>>} \cup o : o \in ObjectsOver(allKeys, allKeys, leaves, n)}

IsContainerTag(t) == t \in {"obj", "arr"}

\* the heap holding the tree d and nothing else; the root is at address 1
HeapOf(d) ==
  LET cpaths == {e[1] : e \in {x \in d : IsContainerTag(x[2])}}
      order == <<(<<>>)>> \o SetToSeq(cpaths \ {<<>>})
      addr(p) == CHOOSE i \in 1..Len(order) : order[i] = p
      entry(p) == CHOOSE e \in d : e[1] = p
      valueAt(p) == IF IsContainerTag(entry(p)[2]) THEN Ref(addr(p))
                    ELSE <<entry(p)[2], entry(p)[3]>>
      keysAt(p) == {q[Len(q)] : q \in {e[1] : e \in {x \in d :
                       /\ Len(x[1]) = Len(p) + 1
                       /\ SubSeq(x[1], 1, Len(p)) = p}}}
  IN [i \in 1..Len(order) |->
        [kind |-> entry(order[i])[2],
         val |-> [k \in keysAt(order[i]) |-> valueAt(order[i] \o <<k>>)]]]

(***************************************************************************)
(* Outcomes of a call: a returned value or a thrown error.                 *)
(***************************************************************************)

Returned(v) == [kind |-> "ok", val |-> v, path |-> <<>>, key |-> <<>>]
Thrown(kind, path, key) == [kind |-> kind, val |-> Undefined, path |-> path, key |-> key]
\* TypeError: the `in` operator or a property write applied to a primitive
TypeError == Thrown("TypeError", <<>>, <<>>)

(***************************************************************************)
(* Core: getMatches                                                        *)
(***************************************************************************)

\* the segment lexer: one step per character of pathStr
RECURSIVE LexFrom(_, _, _, _, _)
LexFrom(pathStr, i, segments, currentSegment, inBrackets) ==
  IF i > Len(pathStr)
  THEN IF currentSegment # <<>> THEN Append(segments, currentSegment) ELSE segments
  ELSE LET char == pathStr[i] IN
       IF char = "[" /\ ~inBrackets
       THEN LexFrom(pathStr, i + 1, segments, currentSegment, TRUE)
       ELSE IF char = "]" /\ inBrackets
       THEN LexFrom(pathStr, i + 1, Append(segments, currentSegment), <<>>, FALSE)
       ELSE IF char = "." /\ ~inBrackets
       THEN IF currentSegment # <<>>
            THEN LexFrom(pathStr, i + 1, Append(segments, currentSegment), <<>>, inBrackets)
            ELSE LexFrom(pathStr, i + 1, segments, currentSegment, inBrackets)
       ELSE LexFrom(pathStr, i + 1, segments, Append(currentSegment, char), inBrackets)

\* a faulty variant: the path is split on "." and brackets are not looked at
LexSplittingOnly(pathStr) == Split(pathStr, Dot)
\* the segments of pathStr
Lex(pathStr) == LexFrom(pathStr, 1, <<>>, <<>>, FALSE)

\* a faulty variant: only a "*" in the last place counts
HasSingleWildcardLast(segments) == segments # <<>> /\ segments[Len(segments)] = Star
\* segments.includes("*")
HasSingleWildcard(segments) == \E i \in 1..Len(segments) : segments[i] = Star

\* the value of a match that is stored as a fresh {} rather than as itself
Stub == <<"stub", 0>>

\* a faulty variant: a container is never stubbed
MatchValueNeverStubbed(c, current) == current
\* the value pushed for the node `current` once the segments are exhausted
MatchValue(c, current) ==
  IF (c.shallowMatch \/ HasSingleWildcard(c.segments)) /\ IsObjectLike(current)
  THEN Stub
  ELSE current

\* a faulty variant: only the first key of the list that is present is taken
KeyListFirstKey(c, current, segment) ==
  LET keys == SelectSeq(Split(segment, <<"|">>), LAMBDA key : HasKey(c.h, current, key))
  IN IF keys = <<>> THEN keys ELSE <<Head(keys)>>
\* the keys of a key-list segment that current has, in the order of the list
KeyListKeys(c, current, segment) ==
  SelectSeq(Split(segment, <<"|">>), LAMBDA key : HasKey(c.h, current, key))

RECURSIVE traverse(_, _, _, _)
RECURSIVE TraverseDouble(_, _, _, _, _)
RECURSIVE TraverseEach(_, _, _, _, _)

\* the matches, in the order they are pushed; c holds the heap, the segments
\* and the two flags of the enclosing getMatches call
traverse(c, current, currentPath, segmentIndex) ==
  IF IsNullish(current) THEN <<>>
  ELSE IF segmentIndex >= Len(c.segments)
  THEN IF ~c.exactDepth \/ Len(currentPath) = Len(c.segments)
       THEN <<[path |-> Join(currentPath, Dot), value |-> MatchValue(c, current)]>>
       ELSE <<>>
  ELSE LET segment == c.segments[segmentIndex + 1] IN
       IF segment = StarStar
       THEN traverse(c, current, currentPath, segmentIndex + 1) \o
            (IF IsObjectLike(current)
             THEN TraverseDouble(c, current, currentPath, segmentIndex, KeysOf(c.h, current))
             ELSE <<>>)
       ELSE IF segment = Star
       THEN IF IsObjectLike(current)
            THEN TraverseEach(c, current, currentPath, segmentIndex, KeysOf(c.h, current))
            ELSE <<>>
       ELSE IF Includes(segment, <<"|">>)
       THEN IF IsObjectLike(current)
            THEN TraverseEach(c, current, currentPath, segmentIndex,
                              KeyListKeys(c, current, segment))
            ELSE <<>>
       ELSE IF IsObjectLike(current) /\ HasKey(c.h, current, segment)
       THEN traverse(c, Get(c.h, current, segment), Append(currentPath, segment),
                     segmentIndex + 1)
       ELSE <<>>

\* a faulty variant: "**" stands for at most one level
TraverseDoubleOneLevel(c, current, currentPath, segmentIndex, keys) ==
  IF keys = <<>> THEN <<>>
  ELSE traverse(c, Get(c.h, current, Head(keys)), Append(currentPath, Head(keys)),
                segmentIndex + 1) \o
       TraverseDouble(c, current, currentPath, segmentIndex, Tail(keys))
\* the loop of the "**" branch over the keys of current
TraverseDouble(c, current, currentPath, segmentIndex, keys) ==
  IF keys = <<>> THEN <<>>
  ELSE LET key == Head(keys)
           child == Get(c.h, current, key)
       IN traverse(c, child, Append(currentPath, key), segmentIndex + 1) \o
          (IF IsObjectLike(child)
           THEN traverse(c, child, Append(currentPath, key), segmentIndex)
           ELSE <<>>) \o
          TraverseDouble(c, current, currentPath, segmentIndex, Tail(keys))

\* a faulty variant: "*" stands for the first key only
TraverseEachFirstKeyOnly(c, current, currentPath, segmentIndex, keys) ==
  IF keys = <<>> THEN <<>>
  ELSE traverse(c, Get(c.h, current, Head(keys)), Append(currentPath, Head(keys)),
                segmentIndex + 1)
\* the loop of the "*" and key-list branches over the given keys
TraverseEach(c, current, currentPath, segmentIndex, keys) ==
  IF keys = <<>> THEN <<>>
  ELSE traverse(c, Get(c.h, current, Head(keys)), Append(currentPath, Head(keys)),
                segmentIndex + 1) \o
       TraverseEach(c, current, currentPath, segmentIndex, Tail(keys))

\* every stubbed match value becomes its own freshly allocated {}
RECURSIVE Materialize(_, _, _)
Materialize(h, matches, done) ==
  IF matches = <<>> THEN [h |-> h, matches |-> done]
  ELSE LET m == Head(matches) IN
       IF m.value = Stub
       THEN Materialize(Append(h, NewObject), Tail(matches),
                        Append(done, [path |-> m.path, value |-> Ref(Len(h) + 1)]))
       ELSE Materialize(h, Tail(matches), Append(done, m))

\* getMatches(obj, path, exactDepth, shallowMatch): the heap after the call
\* and the list of {path, value}
getMatches(h, obj, path, exactDepth, shallowMatch) ==
  LET c == [h |-> h, segments |-> Lex(path), exactDepth |-> exactDepth,
            shallowMatch |-> shallowMatch]
  IN Materialize(h, traverse(c, obj, <<>>, 0), <<>>)

(***************************************************************************)
(* Core: filter                                                            *)
(***************************************************************************)

\* the inner loop of filter: walks pathSegments[i .. length - 2] from current,
\* creating the missing containers; yields the heap and the container reached
RECURSIVE Descend(_, _, _, _)
Descend(h, current, pathSegments, i) ==
  IF i > Len(pathSegments) - 1 THEN [h |-> h, current |-> current, ok |-> TRUE]
  ELSE LET segment == pathSegments[i] IN
       IF ~IsRef(current) THEN [h |-> h, current |-> current, ok |-> FALSE]
       ELSE IF ~HasKey(h, current, segment)
       THEN LET h2 == Store(Append(h, NewObject), current[2], segment, Ref(Len(h) + 1))
            IN Descend(h2, Ref(Len(h) + 1), pathSegments, i + 1)
       ELSE Descend(h, Get(h, current, segment), pathSegments, i + 1)

\* the outer loop of filter over the matches
RECURSIVE Project(_, _, _, _)
Project(h, result, matches, maxDepth) ==
  IF matches = <<>> THEN [h |-> h, out |-> Returned(result)]
  ELSE LET match == Head(matches)
           pathSegments == Split(match.path, Dot)
       IN IF maxDepth # Undefined /\ Len(pathSegments) > maxDepth[2]
          THEN Project(h, result, Tail(matches), maxDepth)
          ELSE LET d == Descend(h, result, pathSegments, 1)
                   lastSegment == pathSegments[Len(pathSegments)]
               IN IF ~d.ok \/ ~IsRef(d.current)
                  THEN [h |-> d.h, out |-> TypeError]
                  ELSE Project(Store(d.h, d.current[2], lastSegment, match.value),
                               result, Tail(matches), maxDepth)

\* a faulty variant: "**" counts as a single wildcard too
ExactDepthOnAnyStar(pathStr) == Includes(pathStr, Star)
\* matches are held to the pattern's depth when it has a "*" and no "**"
ExactDepth(pathStr) == Includes(pathStr, Star) /\ ~Includes(pathStr, StarStar)

\* filter(obj, path, maxDepth) of the core package
CoreFilter(h, obj, path, maxDepth) ==
  LET exactDepth == ExactDepth(path)
      shallowMatch == path = Star
      g == getMatches(h, obj, path, exactDepth, shallowMatch)
  IN Project(Append(g.h, NewObject), Ref(Len(g.h) + 1), g.matches, maxDepth)

(***************************************************************************)
(* Helpers shared by the two object-package filters                        *)
(***************************************************************************)

\* { ...v }: a fresh plain object holding the own properties of v (none for a
\* primitive); the property values are copied as they are, not cloned
Spread(h, v) ==
  [h |-> Append(h, [kind |-> "obj",
                    val |-> IF IsRef(v) THEN h[v[2]].val ELSE EmptyMap]),
   v |-> Ref(Len(h) + 1)]

\* [...v] for an array v: a fresh array holding the same elements
SpreadArray(h, v) ==
  [h |-> Append(h, [kind |-> "arr", val |-> h[v[2]].val]), v |-> Ref(Len(h) + 1)]

\* item !== null && typeof item === "object" && !Array.isArray(item)
isObject(h, item) == IsRef(item) /\ h[item[2]].kind = "obj"
isPlainObject(h, value) == IsRef(value) /\ h[value[2]].kind = "obj"

\* a missing option (options?.field is undefined)
Absent == <<"undefined">>
\* a ?? b
OrElse(a, b) == IF a = Absent THEN b ELSE a

(***************************************************************************)
(* The options-aware object filter (separator, wildcard, shallow)          *)
(***************************************************************************)

RECURSIVE cloneValue(_, _)
RECURSIVE CloneValueKeys(_, _, _, _)
\* cloneValue(value): the heap after the call and the clone
cloneValue(h, value) ==
  IF ~IsRef(value) THEN [h |-> h, v |-> value]
  ELSE LET a == Len(h) + 1
           h1 == Append(h, [kind |-> h[value[2]].kind, val |-> EmptyMap])
       IN [h |-> CloneValueKeys(h1, a, value, KeysOf(h, value)), v |-> Ref(a)]
CloneValueKeys(h, a, value, keys) ==
  IF keys = <<>> THEN h
  ELSE LET c == cloneValue(h, Get(h, value, Head(keys)))
       IN CloneValueKeys(Store(c.h, a, Head(keys), c.v), a, value, Tail(keys))

\* a faulty variant: the shallow flag is not looked at
OptLastValueAlwaysCloning(h, value, shallow) == cloneValue(h, value)
\* the value stored at the last key
OptLastValue(h, value, shallow) ==
  IF shallow
  THEN IF IsRef(value)
       THEN IF h[value[2]].kind = "arr" THEN SpreadArray(h, value)
            ELSE [h |-> Append(h, NewObject), v |-> Ref(Len(h) + 1)]
       ELSE [h |-> h, v |-> value]
  ELSE cloneValue(h, value)

\* the loop of filterSinglePath from index i; current is the address of the
\* result container being filled, source the value being walked
RECURSIVE OptWalk(_, _, _, _, _, _, _)
\* a faulty variant: the error names the last key of the path
OptWalkNamingLastKey(h, path, keys, i, current, source, shallow) ==
  LET key == keys[i] IN
  IF IsNullish(source)
  THEN [h |-> h, out |-> Thrown("PathNotFound", path, keys[Len(keys)])]
  ELSE IF ~IsRef(source) THEN [h |-> h, out |-> TypeError]
  ELSE IF ~HasKey(h, source, key)
  THEN [h |-> h, out |-> Thrown("PathNotFound", path, keys[Len(keys)])]
  ELSE IF i = Len(keys)
  THEN LET l == OptLastValue(h, Get(h, source, key), shallow)
       IN [h |-> Store(l.h, current, key, l.v), out |-> Returned(Undefined)]
  ELSE OptWalk(Store(Append(h, NewObject), current, key, Ref(Len(h) + 1)),
               path, keys, i + 1, Len(h) + 1, Get(h, source, key), shallow)
OptWalk(h, path, keys, i, current, source, shallow) ==
  LET key == keys[i] IN
  IF IsNullish(source) THEN [h |-> h, out |-> Thrown("PathNotFound", path, key)]
  ELSE IF ~IsRef(source) THEN [h |-> h, out |-> TypeError]
  ELSE IF ~HasKey(h, source, key)
  THEN [h |-> h, out |-> Thrown("PathNotFound", path, key)]
  ELSE IF i = Len(keys)
  THEN LET l == OptLastValue(h, Get(h, source, key), shallow)
       IN [h |-> Store(l.h, current, key, l.v), out |-> Returned(Undefined)]
  ELSE OptWalk(Store(Append(h, NewObject), current, key, Ref(Len(h) + 1)),
               path, keys, i + 1, Len(h) + 1, Get(h, source, key), shallow)

\* filterSinglePath(obj, path, separator, wildcard, shallow)
OptFilterSinglePath(h, obj, path, separator, wildcard, shallow) ==
  IF path = wildcard
  THEN LET s == Spread(h, obj) IN [h |-> s.h, out |-> Returned(s.v)]
  ELSE LET result == Len(h) + 1
           w == OptWalk(Append(h, NewObject), path, Split(path, separator), 1,
                        result, obj, shallow)
       IN IF w.out.kind = "ok" THEN [h |-> w.h, out |-> Returned(Ref(result))]
          ELSE w

RECURSIVE OptDeepMerge(_, _, _)
RECURSIVE OptDeepMergeKeys(_, _, _, _, _)
\* deepMerge(target, source): the heap after the call and the output
OptDeepMerge(h, target, source) ==
  LET s == Spread(h, target) IN
  IF isObject(h, target) /\ isObject(h, source)
  THEN [h |-> OptDeepMergeKeys(s.h, s.v, target, source, KeysOf(h, source)),
        v |-> s.v]
  ELSE s
OptDeepMergeKeys(h, output, target, source, keys) ==
  IF keys = <<>> THEN h
  ELSE LET key == Head(keys)
           sourceValue == Get(h, source, key)
           targetValue == Get(h, target, key)
       IN IF isObject(h, sourceValue) /\ HasKey(h, target, key)
          THEN LET m == OptDeepMerge(h, targetValue, sourceValue)
               IN OptDeepMergeKeys(Store(m.h, output[2], key, m.v), output, target,
                                   source, Tail(keys))
          ELSE OptDeepMergeKeys(Store(h, output[2], key, sourceValue), output, target,
                                source, Tail(keys))

\* one element of a path array: a path string, alone or paired with options
PlainItem(path) ==
  [path |-> path, paired |-> FALSE, separator |-> Absent, wildcard |-> Absent,
   shallow |-> Absent]
PairedItem(path, separator, wildcard, shallow) ==
  [path |-> path, paired |-> TRUE, separator |-> separator, wildcard |-> wildcard,
   shallow |-> shallow]

Options(separator, wildcard, shallow) ==
  [separator |-> separator, wildcard |-> wildcard, shallow |-> shallow]
True == <<"true">>
False == <<"false">>

\* a faulty variant: the options of a pair are not looked at
ItemOptionOfCall(paired, own, default) == default
\* an option of one element: pathOptions?.field ?? default for a pair
ItemOption(paired, own, default) == IF paired THEN OrElse(own, default) ELSE default

\* the reduce over the path array, from the accumulated result
RECURSIVE OptReduce(_, _, _, _, _)
\* a faulty variant: an element that fails is passed over
OptReduceSkippingFailures(h, obj, result, items, defaults) ==
  IF items = <<>> THEN [h |-> h, out |-> Returned(result)]
  ELSE LET it == Head(items)
           separator == ItemOption(it.paired, it.separator, defaults.separator)
           wildcard == ItemOption(it.paired, it.wildcard, defaults.wildcard)
           shallow == ItemOption(it.paired, it.shallow, defaults.shallow)
           f == OptFilterSinglePath(h, obj, it.path, separator, wildcard,
                                    shallow = True)
       IN IF f.out.kind # "ok" THEN OptReduce(h, obj, result, Tail(items), defaults)
          ELSE LET m == OptDeepMerge(f.h, result, f.out.val)
               IN OptReduce(m.h, obj, m.v, Tail(items), defaults)
OptReduce(h, obj, result, items, defaults) ==
  IF items = <<>> THEN [h |-> h, out |-> Returned(result)]
  ELSE LET it == Head(items)
           separator == ItemOption(it.paired, it.separator, defaults.separator)
           wildcard == ItemOption(it.paired, it.wildcard, defaults.wildcard)
           shallow == ItemOption(it.paired, it.shallow, defaults.shallow)
           f == OptFilterSinglePath(h, obj, it.path, separator, wildcard,
                                    shallow = True)
       IN IF f.out.kind # "ok" THEN f
          ELSE LET m == OptDeepMerge(f.h, result, f.out.val)
               IN OptReduce(m.h, obj, m.v, Tail(items), defaults)

\* filter(obj, path, options); path is [isArray, items], a single path string
\* being the one item of a non-array
OptFilter(h, obj, path, options) ==
  LET defaults == Options(OrElse(options.separator, Dot),
                          OrElse(options.wildcard, Star),
                          OrElse(options.shallow, False))
  IN IF path.isArray
     THEN OptReduce(Append(h, NewObject), obj, Ref(Len(h) + 1), path.items, defaults)
     ELSE OptFilterSinglePath(h, obj, path.items[1].path, defaults.separator,
                              defaults.wildcard, defaults.shallow = True)

(***************************************************************************)
(* The range-aware object filter (separator, wildcard, start..end)         *)
(***************************************************************************)

RECURSIVE deepClone(_, _)
RECURSIVE DeepCloneKeys(_, _, _, _)
\* deepClone(value): the heap after the call and the clone
deepClone(h, value) ==
  IF ~IsRef(value) THEN [h |-> h, v |-> value]
  ELSE LET a == Len(h) + 1
           h1 == Append(h, [kind |-> h[value[2]].kind, val |-> EmptyMap])
       IN [h |-> DeepCloneKeys(h1, a, value, KeysOf(h, value)), v |-> Ref(a)]
DeepCloneKeys(h, a, value, keys) ==
  IF keys = <<>> THEN h
  ELSE LET c == deepClone(h, Get(h, value, Head(keys)))
       IN DeepCloneKeys(Store(c.h, a, Head(keys), c.v), a, value, Tail(keys))

RECURSIVE RangeDeepMerge(_, _, _)
RECURSIVE RangeDeepMergeKeys(_, _, _, _, _)
\* deepMerge(target, source): the heap after the call and the output
RangeDeepMerge(h, target, source) ==
  LET s == Spread(h, target) IN
  IF isPlainObject(h, target) /\ isPlainObject(h, source)
  THEN [h |-> RangeDeepMergeKeys(s.h, s.v, target, source, KeysOf(h, source)),
        v |-> s.v]
  ELSE s
RangeDeepMergeKeys(h, output, target, source, keys) ==
  IF keys = <<>> THEN h
  ELSE LET key == Head(keys)
           sourceValue == Get(h, source, key)
           targetValue == Get(h, target, key)
       IN IF /\ isPlainObject(h, sourceValue)
             /\ HasKey(h, target, key)
             /\ isPlainObject(h, targetValue)
          THEN LET m == RangeDeepMerge(h, targetValue, sourceValue)
               IN RangeDeepMergeKeys(Store(m.h, output[2], key, m.v), output, target,
                                     source, Tail(keys))
          ELSE LET c == deepClone(h, sourceValue)
               IN RangeDeepMergeKeys(Store(c.h, output[2], key, c.v), output, target,
                                     source, Tail(keys))

\* the loop of filterSinglePath from index i
RECURSIVE RangeWalk(_, _, _, _, _, _)
RangeWalk(h, path, parts, i, current, source) ==
  IF i > Len(parts) THEN [h |-> h, out |-> Returned(Undefined)]
  ELSE LET key == parts[i] IN
       IF ~HasKey(h, source, key)
       THEN [h |-> h, out |-> Thrown("PathNotFound", path, key)]
       ELSE IF i = Len(parts)
       THEN LET c == deepClone(h, Get(h, source, key))
            IN [h |-> Store(c.h, current, key, c.v), out |-> Returned(Undefined)]
       ELSE LET next == Get(h, source, key) IN
            IF ~isPlainObject(h, next)
            THEN [h |-> h, out |-> Thrown("NonTraversable", <<>>, key)]
            ELSE RangeWalk(Store(Append(h, NewObject), current, key, Ref(Len(h) + 1)),
                           path, parts, i + 1, Len(h) + 1, next)

\* filterSinglePath(obj, path, separator, wildcard)
RangeFilterSinglePath(h, obj, path, separator, wildcard) ==
  IF path = wildcard
  THEN LET s == Spread(h, IF isPlainObject(h, obj) THEN obj ELSE Undefined)
       IN [h |-> s.h, out |-> Returned(s.v)]
  ELSE IF ~isPlainObject(h, obj) THEN [h |-> h, out |-> Thrown("NonObject", <<>>, <<>>)]
  ELSE LET result == Len(h) + 1
           w == RangeWalk(Append(h, NewObject), path,
                          FilterBoolean(Split(path, separator)), 1, result, obj)
       IN IF w.out.kind = "ok" THEN [h |-> w.h, out |-> Returned(Ref(result))]
          ELSE w

\* a faulty variant: the error is not caught
safeFilterSinglePathRethrowing(h, obj, path, separator, wildcard) ==
  RangeFilterSinglePath(h, obj, path, separator, wildcard)
\* safeFilterSinglePath: null (here: a thrown outcome swallowed) on any error
safeFilterSinglePath(h, obj, path, separator, wildcard) ==
  LET f == RangeFilterSinglePath(h, obj, path, separator, wildcard)
  IN IF f.out.kind = "ok" THEN f ELSE [h |-> f.h, out |-> Returned(Null)]

Digits == <<"0", "1", "2", "3", "4", "5", "6", "7", "8", "9">>
IsDigit(ch) == \E d \in 1..Len(Digits) : Digits[d] = ch
DigitValue(ch) == (CHOOSE d \in 1..Len(Digits) : Digits[d] = ch) - 1

\* parseInt(s, 10) for a string of digits
RECURSIVE parseInt(_)
parseInt(s) ==
  IF s = <<>> THEN 0
  ELSE parseInt(SubSeq(s, 1, Len(s) - 1)) * Len(Digits) + DigitValue(s[Len(s)])

\* `${num}` for a number num >= 0
RECURSIVE NumToString(_)
NumToString(num) ==
  IF num < Len(Digits) THEN <<Digits[num + 1]>>
  ELSE NumToString(num \div Len(Digits)) \o <<Digits[(num % Len(Digits)) + 1]>>

\* the end of the longest run of digits of s starting at i (i - 1 when none)
RECURSIVE DigitRunEnd(_, _)
DigitRunEnd(s, i) ==
  IF i <= Len(s) /\ IsDigit(s[i]) THEN DigitRunEnd(s, i + 1) ELSE i - 1

\* s.match(/(\d+)\.\.(\d+)/): the leftmost match as [found, from, start, end, to]
RegexRange(s) ==
  LET matchAt(i) ==
        LET e1 == DigitRunEnd(s, i)
            e2 == DigitRunEnd(s, e1 + 3)
        IN /\ e1 >= i
           /\ e1 + 2 <= Len(s)
           /\ SubSeq(s, e1 + 1, e1 + 2) = <<".", ".">>
           /\ e2 >= e1 + 3
      hits == {i \in 1..Len(s) : matchAt(i)}
  IN IF hits = {} THEN [found |-> FALSE, full |-> <<>>, start |-> <<>>, end |-> <<>>]
     ELSE LET i == CHOOSE x \in hits : \A y \in hits : x <= y
              e1 == DigitRunEnd(s, i)
              e2 == DigitRunEnd(s, e1 + 3)
          IN [found |-> TRUE, full |-> SubSeq(s, i, e2),
              start |-> SubSeq(s, i, e1), end |-> SubSeq(s, e1 + 3, e2)]

\* the reduce over the expanded paths startNum..endNum, from the accumulator
RECURSIVE RangeReduce(_, _, _, _, _, _, _, _, _)
\* a faulty variant: the range leaves out its end
RangeReduceExclusive(h, obj, acc, num, endNum, beforeRange, afterRange, separator, wildcard) ==
  IF num >= endNum THEN [h |-> h, out |-> Returned(acc)]
  ELSE LET path == beforeRange \o NumToString(num) \o afterRange
           f == safeFilterSinglePath(h, obj, path, separator, wildcard)
       IN IF f.out.kind # "ok" THEN f
          ELSE IF f.out.val # Null
          THEN LET m == RangeDeepMerge(f.h, acc, f.out.val)
               IN RangeReduce(m.h, obj, m.v, num + 1, endNum, beforeRange, afterRange,
                              separator, wildcard)
          ELSE RangeReduce(f.h, obj, acc, num + 1, endNum, beforeRange, afterRange,
                           separator, wildcard)
RangeReduce(h, obj, acc, num, endNum, beforeRange, afterRange, separator, wildcard) ==
  IF num > endNum THEN [h |-> h, out |-> Returned(acc)]
  ELSE LET path == beforeRange \o NumToString(num) \o afterRange
           f == safeFilterSinglePath(h, obj, path, separator, wildcard)
       IN IF f.out.kind # "ok" THEN f
          ELSE IF f.out.val # Null
          THEN LET m == RangeDeepMerge(f.h, acc, f.out.val)
               IN RangeReduce(m.h, obj, m.v, num + 1, endNum, beforeRange, afterRange,
                              separator, wildcard)
          ELSE RangeReduce(f.h, obj, acc, num + 1, endNum, beforeRange, afterRange,
                           separator, wildcard)

\* a faulty variant: a range of one number is let through
RangeIsInvalidStrict(startNum, endNum) == startNum > endNum
\* the guard of the range branch: startNum >= endNum
RangeIsInvalid(startNum, endNum) == startNum >= endNum

RECURSIVE RangeFilter(_, _, _, _)
RECURSIVE RangeFilterArray(_, _, _, _, _)
\* filter(obj, matches, options); matches is [isArray, items]
RangeFilter(h, obj, matches, options) ==
  LET separator == OrElse(options.separator, Dot)
      wildcard == OrElse(options.wildcard, Star)
      path == matches.items[1].path
      m == RegexRange(path)
  IN IF ~matches.isArray /\ path = wildcard
     THEN RangeFilterSinglePath(h, obj, wildcard, separator, wildcard)
     ELSE IF matches.isArray
     THEN RangeFilterArray(Append(h, NewObject), obj, Ref(Len(h) + 1), matches.items,
                           options)
     ELSE IF Includes(path, <<".", ".">>) /\ m.found
     THEN IF RangeIsInvalid(parseInt(m.start), parseInt(m.end))
          THEN [h |-> h, out |-> Thrown("InvalidRange", NumToString(parseInt(m.start)),
                                       NumToString(parseInt(m.end)))]
          ELSE LET pieces == Split(path, m.full)
               IN RangeReduce(Append(h, NewObject), obj, Ref(Len(h) + 1),
                              parseInt(m.start), parseInt(m.end), pieces[1], pieces[2],
                              separator, wildcard)
     ELSE RangeFilterSinglePath(h, obj, path, separator, wildcard)
\* the reduce over the array of paths
RangeFilterArray(h, obj, acc, items, options) ==
  IF items = <<>> THEN [h |-> h, out |-> Returned(acc)]
  ELSE LET f == RangeFilter(h, obj, [isArray |-> FALSE, items |-> <<Head(items)>>],
                            options)
       IN IF f.out.kind # "ok" THEN f
          ELSE LET m == RangeDeepMerge(f.h, acc, f.out.val)
               IN RangeFilterArray(m.h, obj, m.v, Tail(items), options)

(***************************************************************************)
(* The state machine.  A behaviour draws a source tree, makes one call on  *)
(* it and may then let the caller write into a container of the result.    *)
(*   heap    the containers                                                *)
(*   src     the source value handed to the call                           *)
(*   before  the deep value of src before the call                         *)
(*   call    the arguments of the call made                                *)
(*   res     its outcome                                                   *)
(*   pc      "ready", "done" (the call returned or threw), "mutated"       *)
(***************************************************************************)

Ka == <<"a">>
Kb == <<"b">>
Kab == <<"a", ".", "b">>
Km == <<"m">>

NoCall == [op |-> "none"]

InitWith(trees) ==
  \E t \in trees :
    /\ heap = HeapOf(t)
    /\ src = Ref(1)
    /\ before = t
    /\ call = NoCall
    /\ res = Returned(Undefined)
    /\ pc = "ready"

\* the caller writes result...[m] = 2 into a container reachable from the result
MutateResult ==
  /\ pc = "done"
  /\ res.kind = "ok"
  /\ \E a \in Reach(heap, res.val) :
       heap' = Store(heap, a, Km, Num(2))
  /\ pc' = "mutated"
  /\ UNCHANGED <<src, call, res, before>>

(***************************************************************************)
(* The core package                                                        *)
(***************************************************************************)

PlainKeys == <<Ka, Kb>>
CoreKeys == <<Ka, Kb, Kab>>
CoreLeaves == {Num(1), Null}
CoreTrees ==
  TreesOver(PlainKeys, CoreLeaves, MaxNodes) \cup
  TreesOver(CoreKeys, CoreLeaves, MaxNodes - 1)

CoreTokens == {Ka, Kb, Star, StarStar, <<"[", "a", "|", "b", "]">>}
CorePatterns ==
  CoreTokens \cup {Join(<<t, u>>, Dot) : t \in CoreTokens, u \in CoreTokens}
\* bracket groups that are not a list of two different keys
BracketPatterns ==
  {<<"[", "a">>, <<"[", "a", "]">>, <<"[", "b", "]">>, <<"[", "a", "|", "a", "]">>}
\* a single wildcard in the middle of the path
DeepPatterns == {Join(<<Ka, Star, k>>, Dot) : k \in {Ka, Kb}}
\* a key list naming a key with a "." in it: inside brackets "." is no separator
DottedKeyPatterns == {<<"[", "a", ".", "b", "|", "a", "]">>}
\* maxDepth is left out, or given where the pattern has a "**"
CoreCalls ==
  {<<p, Undefined>> :
     p \in CorePatterns \cup BracketPatterns \cup DeepPatterns \cup DottedKeyPatterns} \cup
  {<<p, Num(d)>> : p \in {q \in CorePatterns : Includes(q, StarStar)}, d \in 1..3}

CoreCall(path, maxDepth) ==
  /\ pc = "ready"
  /\ LET r == CoreFilter(heap, src, path, maxDepth) IN
       /\ heap' = r.h
       /\ res' = r.out
  /\ call' = [op |-> "core", path |-> path, maxDepth |-> maxDepth]
  /\ pc' = "done"
  /\ UNCHANGED <<src, before>>

InitCore == InitWith(CoreTrees)

NextCore == \E c \in CoreCalls : CoreCall(c[1], c[2])

SpecCore == InitCore /\ [][NextCore]_vars

(***************************************************************************)
(* The options-aware object filter as a state machine                      *)
(***************************************************************************)

Slash == <<"/">>
\* a custom wildcard string
Wild == <<"W">>

Single(path) == [isArray |-> FALSE, items |-> <<PlainItem(path)>>]

ObjTrees == TreesOver(CoreKeys, CoreLeaves, MaxNodes - 1)

ObjStrings ==
  {Star, Wild, Ka, Kb} \cup
  {Join(<<t, u>>, sep) : t \in {Ka, Kb}, u \in {Ka, Kb}, sep \in {Dot, Slash}} \cup
  {Join(<<Ka, Kb, Ka>>, Dot), Join(<<Kb, Ka, Kb>>, Dot)}
ObjPaths == {Single(p) : p \in ObjStrings}
ObjOptions ==
  {Options(sep, wc, sh) : sep \in {Absent, Slash}, wc \in {Absent, Wild},
                          sh \in {Absent, True}}

ObjectCall(path, options) ==
  /\ pc = "ready"
  /\ LET r == OptFilter(heap, src, path, options) IN
       /\ heap' = r.h
       /\ res' = r.out
  /\ call' = [op |-> "object", path |-> path, options |-> options]
  /\ pc' = "done"
  /\ UNCHANGED <<src, before>>

InitObject == InitWith(ObjTrees)

NextObject ==
  \/ \E path \in ObjPaths, options \in ObjOptions : ObjectCall(path, options)
  \/ MutateResult

SpecObject == InitObject /\ [][NextObject]_vars

(***************************************************************************)
(* The range-aware object filter as a state machine                        *)
(***************************************************************************)

K1 == <<"1">>
K2 == <<"2">>
K3 == <<"3">>
Range(s, e) == s \o <<".", ".">> \o e

RangeKeys == <<Ka, K1, K2>>
RangeTrees == TreesOver(RangeKeys, CoreLeaves, MaxNodes - 1)

RangeTokens == {Range(K1, K2), Range(K1, K3), Range(K2, K1), Range(K2, K2)}
RangeStrings ==
  RangeTokens \cup
  {Join(<<Ka, r>>, sep) : r \in RangeTokens, sep \in {Dot, Slash}} \cup
  {Join(<<r, Ka>>, sep) : r \in RangeTokens, sep \in {Dot, Slash}} \cup
  {Star, Ka, K1, Join(<<Ka, K1>>, Dot), Join(<<K1, Ka>>, Dot)}
RangePaths == {Single(p) : p \in RangeStrings}
RangeOptions == {Options(sep, Absent, Absent) : sep \in {Absent, Slash}}

RangeCall(matches, options) ==
  /\ pc = "ready"
  /\ LET r == RangeFilter(heap, src, matches, options) IN
       /\ heap' = r.h
       /\ res' = r.out
  /\ call' = [op |-> "range", path |-> matches, options |-> options]
  /\ pc' = "done"
  /\ UNCHANGED <<src, before>>

InitRange == InitWith(RangeTrees)

NextRange ==
  \/ \E matches \in RangePaths, options \in RangeOptions : RangeCall(matches, options)
  \/ MutateResult

SpecRange == InitRange /\ [][NextRange]_vars

(***************************************************************************)
(* Sources that hold arrays.  A container other than the root whose keys   *)
(* are the indices 0 .. n-1 may be an array.                               *)
(***************************************************************************)

K0 == <<"0">>
IndexSets == {{}, {K0}, {K0, K1}}

\* the key paths of the containers of d that may be arrays
Eligible(d) ==
  {e[1] : e \in {x \in d : /\ x[2] = "obj" /\ x[1] # <<>>
                           /\ {q[Len(q)] : q \in {y[1] : y \in {z \in d :
                                 /\ Len(z[1]) = Len(x[1]) + 1
                                 /\ SubSeq(z[1], 1, Len(x[1])) = x[1]}}} \in IndexSets}}

\* d with the containers at the paths S made arrays
Retag(d, S) == {IF e[1] \in S THEN <<e[1], "arr", 0>> ELSE e : e \in d}

ArrayTreesOver(allKeys, leaves, n) ==
  UNION {{Retag(d, S) : S \in SUBSET Eligible(d)} : d \in TreesOver(allKeys, leaves, n)}

(***************************************************************************)
(* The options-aware object filter on sources with arrays: one call with a *)
(* single path string, shallow or not                                      *)
(***************************************************************************)

ShallowKeys == <<Ka, K0, K1>>
ShallowTrees == ArrayTreesOver(ShallowKeys, CoreLeaves, MaxNodes - 1)

ShallowStrings ==
  {Star, Ka, K0} \cup
  {Join(<<t, u>>, Dot) : t \in {Ka, K0}, u \in {Ka, K0, K1, LengthKey}} \cup
  {Join(<<Ka, t, u>>, Dot) : t \in {Ka, K0}, u \in {Ka, K0}}
ShallowPaths == {Single(p) : p \in ShallowStrings}
ShallowOptions == {Options(Absent, Absent, sh) : sh \in {Absent, True, False}}

InitShallow == InitWith(ShallowTrees)

NextShallow ==
  \E path \in ShallowPaths, options \in ShallowOptions : ObjectCall(path, options)

SpecShallow == InitShallow /\ [][NextShallow]_vars

(***************************************************************************)
(* The two object filters called with an array of paths                    *)
(***************************************************************************)

ArrayKeys == <<Ka, K0>>
ArrayTrees == ArrayTreesOver(ArrayKeys, CoreLeaves, MaxNodes - 2)

\* the elements of a path array of the options-aware filter
ArrayItems ==
  {PlainItem(p) : p \in {Star, Ka, Join(<<Ka, Ka>>, Dot), Join(<<Ka, K0>>, Dot),
                         Join(<<Ka, Ka>>, Slash)}} \cup
  {PairedItem(Ka, Absent, Absent, True),
   PairedItem(Join(<<Ka, Ka>>, Dot), Absent, Absent, False),
   PairedItem(Join(<<Ka, Ka>>, Slash), Slash, Absent, Absent),
   PairedItem(Wild, Absent, Wild, Absent),
   PairedItem(Star, Absent, Wild, Absent),
   PairedItem(Star, Absent, Absent, True)}
ArraysOf(items) ==
  {<<>>} \cup {<<i>> : i \in items} \cup {<<i, j>> : i \in items, j \in items}
ArrayPaths == {[isArray |-> TRUE, items |-> a] : a \in ArraysOf(ArrayItems)}
ArrayOptions ==
  {Options(Absent, Absent, Absent), Options(Slash, Absent, Absent),
   Options(Absent, Wild, Absent), Options(Absent, Absent, True)}

\* the elements of a path array of the range-aware filter
RangeArrayItems ==
  {PlainItem(p) : p \in {Ka, K0, Join(<<Ka, Ka>>, Dot), Join(<<Ka, K0>>, Dot),
                         Range(K0, K1)}}
RangeArrayPaths == {[isArray |-> TRUE, items |-> a] : a \in ArraysOf(RangeArrayItems)}

InitArray == InitWith(ArrayTrees)

NextArray ==
  \/ \E path \in ArrayPaths, options \in ArrayOptions : ObjectCall(path, options)
  \/ \E matches \in RangeArrayPaths, options \in RangeOptions : RangeCall(matches, options)

SpecArray == InitArray /\ [][NextArray]_vars

(***************************************************************************)
(* Properties.  Helpers over deep values, independent of the heap code.    *)
(***************************************************************************)

RootOnly == {<<(<<>>), "obj", 0>>}

\* the heap and the containers of the source before the call
HeapBefore == HeapOf(before)
SourceContainers == DOMAIN HeapBefore

\* the tag of the entry of d at path p, "none" when d has no such path
TagAt(d, p) ==
  IF \E e \in d : e[1] = p THEN (CHOOSE e \in d : e[1] = p)[2] ELSE "none"

\* the deep value of the subtree of d at path p
SubtreeAt(d, p) ==
  {<<SubSeq(e[1], Len(p) + 1, Len(e[1])), e[2], e[3]>> :
     e \in {x \in d : Len(x[1]) >= Len(p) /\ SubSeq(x[1], 1, Len(p)) = p}}

\* the keys of the container of d at path p
ChildKeys(d, p) ==
  {e[1][Len(p) + 1] :
     e \in {x \in d : Len(x[1]) = Len(p) + 1 /\ SubSeq(x[1], 1, Len(p)) = p}}

HasDot(key) == \E i \in 1..Len(key) : key[i] = "."

Finished == pc \in {"done", "mutated"}

\* the wildcard string in force for the object call made
CallWildcard == OrElse(call.options.wildcard, Star)
CallSeparator == OrElse(call.options.separator, Dot)
CallPath == call.path.items[1].path

(***************************************************************************)
(* C1.  Options-aware object filter: filter(T, <wildcard>) returns a value *)
(* that deep-equals T and shares no container with T at any depth, so that *)
(* a write into a container of the result leaves T as it was.              *)
(* The code returns { ...obj }: the nested containers of the result are    *)
(* the source's own.                                                       *)
(***************************************************************************)
C1_WildcardIsDeepClone ==
  (Finished /\ call.op = "object" /\ ~call.path.isArray /\ CallPath = CallWildcard)
    => /\ res.kind = "ok"
       /\ (pc = "done" => Deep(heap, res.val) = before)
       /\ Reach(heap, res.val) \cap SourceContainers = {}
       /\ Deep(heap, src) = before

(***************************************************************************)
(* C2.  Core filter: no container reachable from the result is a container *)
(* of the source.  getMatches stores the source's own containers as match  *)
(* values, and filter assigns them into the result.                        *)
(***************************************************************************)
C2_CoreResultIsFresh ==
  (pc = "done" /\ call.op = "core" /\ res.kind = "ok")
    => Reach(heap, res.val) \cap SourceContainers = {}

(***************************************************************************)
(* C3.  Options-aware object filter, literal path: when the walk reaches a *)
(* container that lacks the next key, the call throws the path-not-found   *)
(* error carrying the whole path and that key, the first missing one.      *)
(***************************************************************************)
CallKeys == Split(CallPath, CallSeparator)

\* the walk over the source before the call reaches a container at the first
\* i - 1 keys, and that container lacks key i
MissingAt(i) ==
  /\ IsContainerTag(TagAt(before, SubSeq(CallKeys, 1, i - 1)))
  /\ TagAt(before, SubSeq(CallKeys, 1, i)) = "none"

LiteralObjectCall ==
  /\ pc = "done" /\ call.op = "object" /\ ~call.path.isArray
  /\ CallPath # CallWildcard

C3_FirstMissingKeyIsReported ==
  LiteralObjectCall =>
    \A i \in 1..Len(CallKeys) :
      MissingAt(i) => res = Thrown("PathNotFound", CallPath, CallKeys[i])

\* the second of three keys is the missing one, the first exists
C3_Witness ==
  /\ LiteralObjectCall
  /\ Len(CallKeys) >= 3
  /\ MissingAt(2)
  /\ CallKeys[1] # CallKeys[2]
  /\ res.kind = "PathNotFound"

(***************************************************************************)
(* C4.  Core filter: filter(T, "**") without maxDepth deep-equals T.  The  *)
(* first match of "**" is the root itself with the empty path, which the   *)
(* projector stores under the key "".                                      *)
(***************************************************************************)
C4_DoubleWildcardEqualsSource ==
  (pc = "done" /\ call.op = "core" /\ call.path = StarStar
     /\ call.maxDepth = Undefined)
    => res.kind = "ok" /\ Deep(heap, res.val) = before

(***************************************************************************)
(* C5.  Core filter with maxDepth = d: the result holds no key path longer *)
(* than d; stated for the patterns "k.**" the claim singles out.  A kept   *)
(* match stores the whole source subtree as its value.                     *)
(***************************************************************************)
PlainKeySet == {PlainKeys[i] : i \in 1..Len(PlainKeys)}

C5_ResultWithinMaxDepth ==
  (pc = "done" /\ call.op = "core" /\ call.maxDepth # Undefined
     /\ \E k \in PlainKeySet : call.path = Join(<<k, StarStar>>, Dot))
    => /\ res.kind = "ok"
       /\ \A p \in PathsOf(Deep(heap, res.val)) : Len(p) <= call.maxDepth[2]

(***************************************************************************)
(* The deep merge of two deep values of plain objects, later value wins:   *)
(* an entry of the earlier value survives unless, at its path or above, the *)
(* later value has an entry and the two are not both plain objects.        *)
(***************************************************************************)
MergeDeep(A, B) ==
  B \cup {e \in A :
            \A n \in 1..Len(e[1]) :
              LET q == SubSeq(e[1], 1, n) IN
              TagAt(B, q) # "none" => (TagAt(B, q) = "obj" /\ TagAt(A, q) = "obj")}

(***************************************************************************)
(* C6.  Range-aware object filter: filter(T, "p.s..e.q") with s < e        *)
(* deep-equals the left-to-right merge of filter(T, "p.i.q"), i = s .. e.  *)
(* As stated it fails when some filter(T, "p.i.q") throws (a key is        *)
(* missing): the range call returns all the same.  It holds with the       *)
(* failing expanded patterns contributing nothing.                         *)
(***************************************************************************)
RangeNums == 1..3

\* the path string of the range call made, "" when the call is not one
RangePath ==
  IF pc = "done" /\ call.op = "range" /\ ~call.path.isArray THEN CallPath ELSE <<>>

\* the path of the range call made is pre \o "s..e" \o post
RangeShape(pre, s, e, post) ==
  /\ pc = "done" /\ call.op = "range" /\ ~call.path.isArray
  /\ RangePath = pre \o Range(NumToString(s), NumToString(e)) \o post

\* the cut of the path at n: what is before it, and what follows a range there
PreAt(n) == SubSeq(RangePath, 1, n)
PostAt(n, s, e) ==
  SubSeq(RangePath, n + Len(Range(NumToString(s), NumToString(e))) + 1, Len(RangePath))
CutPoints == 0..Len(RangePath)

\* filter(T, pre \o i \o post) on the source as it was before the call
Literal(pre, i, post) ==
  RangeFilter(HeapBefore, Ref(1), Single(pre \o NumToString(i) \o post), call.options)

LiteralDeep(pre, i, post) ==
  LET r == Literal(pre, i, post)
  IN IF r.out.kind = "ok" THEN Deep(r.h, r.out.val) ELSE RootOnly

RECURSIVE MergedLiterals(_, _, _, _, _)
MergedLiterals(acc, i, e, pre, post) ==
  IF i > e THEN acc
  ELSE MergedLiterals(MergeDeep(acc, LiteralDeep(pre, i, post)), i + 1, e, pre, post)

C6_RangeEqualsMergeOfLiterals ==
  \A s \in RangeNums, e \in RangeNums :
    \A n \in CutPoints :
      (RangeShape(PreAt(n), s, e, PostAt(n, s, e)) /\ s < e)
        => /\ \A i \in s..e : Literal(PreAt(n), i, PostAt(n, s, e)).out.kind = "ok"
           /\ res.kind = "ok"
           /\ Deep(heap, res.val) =
                MergedLiterals(RootOnly, s, e, PreAt(n), PostAt(n, s, e))

C6_RangeEqualsMergeOfSucceedingLiterals ==
  \A s \in RangeNums, e \in RangeNums :
    \A n \in CutPoints :
      (RangeShape(PreAt(n), s, e, PostAt(n, s, e)) /\ s < e)
        => /\ res.kind = "ok"
           /\ Deep(heap, res.val) =
                MergedLiterals(RootOnly, s, e, PreAt(n), PostAt(n, s, e))

\* three expanded patterns under a common key: two succeed, one fails
C6_Witness ==
  \E s \in RangeNums, e \in RangeNums :
    \E n \in CutPoints :
      /\ RangeShape(PreAt(n), s, e, PostAt(n, s, e)) /\ s + 2 = e
      /\ n > 0
      /\ Cardinality({i \in s..e :
                        Literal(PreAt(n), i, PostAt(n, s, e)).out.kind = "ok"}) = 2
      /\ res.kind = "ok"

KeyList(x, y) == <<"[">> \o x \o <<"|">> \o y \o <<"]">>

CoreOn(path) == CoreFilter(HeapBefore, Ref(1), path, Undefined)
CoreDeep(path) ==
  LET r == CoreOn(path)
  IN IF r.out.kind = "ok" THEN Deep(r.h, r.out.val) ELSE {}

AlternationCall(x, y, z) ==
  /\ pc = "done" /\ call.op = "core" /\ call.maxDepth = Undefined
  /\ call.path = Join(<<KeyList(x, y), z>>, Dot)

C8_AlternationEqualsMerge ==
  \A x \in PlainKeySet, y \in PlainKeySet, z \in PlainKeySet :
    AlternationCall(x, y, z)
      => /\ res.kind = "ok"
         /\ CoreOn(Join(<<x, z>>, Dot)).out.kind = "ok"
         /\ CoreOn(Join(<<y, z>>, Dot)).out.kind = "ok"
         /\ Deep(heap, res.val) =
              MergeDeep(CoreDeep(Join(<<x, z>>, Dot)), CoreDeep(Join(<<y, z>>, Dot)))

\* both branches contribute
C8_Witness ==
  \E x \in PlainKeySet, y \in PlainKeySet, z \in PlainKeySet :
    /\ AlternationCall(x, y, z)
    /\ x # y
    /\ CoreDeep(Join(<<x, z>>, Dot)) # RootOnly
    /\ CoreDeep(Join(<<y, z>>, Dot)) # RootOnly
    /\ res.kind = "ok"

(***************************************************************************)
(* C9.  Core filter: filter(T, "k.*"), T[k] a container, returns {k: R}, R *)
(* having exactly the keys of T[k], container children as empty containers *)
(* and scalar children as themselves.  As stated it fails: a child holding *)
(* null is left out, and when no child is left the result is {} and not    *)
(* {k: {}}.  It holds of the children that are not null, when T[k] has no  *)
(* key with a "." in it (the projector splits such a key in two).          *)
(***************************************************************************)
SingleWildcardCall(k) ==
  /\ pc = "done" /\ call.op = "core" /\ call.maxDepth = Undefined
  /\ call.path = Join(<<k, Star>>, Dot)
  /\ IsContainerTag(TagAt(before, <<k>>))

\* the entry of the result for the child c of T[k]
ChildEntry(k, c) ==
  LET e == CHOOSE x \in before : x[1] = <<k, c>>
  IN IF IsContainerTag(e[2]) THEN <<e[1], "obj", 0>> ELSE e

NonNullChildren(k) ==
  {c \in ChildKeys(before, <<k>>) : TagAt(before, <<k, c>>) # "null"}

DoubleWildcardCall(k) ==
  /\ pc = "done" /\ call.op = "core" /\ call.maxDepth = Undefined
  /\ call.path = Join(<<k, StarStar>>, Dot)
  /\ TagAt(before, <<k>>) # "none"

NoDotBelow(k) ==
  \A p \in PathsOf(SubtreeAt(before, <<k>>)) : \A n \in 1..Len(p) : ~HasDot(p[n])

LeafPaths(d) ==
  {p \in PathsOf(d) :
     ~\E q \in PathsOf(d) : Len(q) > Len(p) /\ SubSeq(q, 1, Len(p)) = p}

\* filter(T, path, d) on the source as it was before the call
CoreWithDepth(path, d) == CoreFilter(HeapBefore, Ref(1), path, Num(d))

\* the depth limit of the core call made, 0 when none was given
CallDepth ==
  IF pc = "done" /\ call.op = "core" /\ call.maxDepth # Undefined
  THEN call.maxDepth[2] ELSE 0

C14_LeafPathsGrowWithDepth ==
  \A k \in PlainKeySet : \A d1 \in 0..(CallDepth - 1) :
    (/\ pc = "done" /\ call.op = "core" /\ call.maxDepth # Undefined
     /\ call.path = Join(<<k, StarStar>>, Dot)
     /\ res.kind = "ok"
     /\ CoreWithDepth(call.path, d1).out.kind = "ok")
      => LET small == CoreWithDepth(call.path, d1)
         IN LeafPaths(Deep(small.h, small.out.val)) \subseteq
              LeafPaths(Deep(heap, res.val))

(***************************************************************************)
(* C16.  Core pattern lexer: an unterminated "[", a bracket group of fewer *)
(* than two keys and a group with the same key twice are rejected with a   *)
(* malformed-pattern error.  The lexer has no error at all: "[a" and "[a]" *)
(* lex to the literal a, and "[a|a]" matches a twice.                      *)
(***************************************************************************)
MalformedPatterns ==
  {<<"[", "a">>, <<"[", "a", "]">>, <<"[", "a", "|", "a", "]">>}

C16_MalformedGroupIsRejected ==
  (pc = "done" /\ call.op = "core" /\ call.path \in MalformedPatterns)
    => res.kind = "MalformedPattern"

(***************************************************************************)
(* C17.  Core filter: filter(T, "[k]") deep-equals filter(T, "k"), which   *)
(* is {k: T[k]} when T has the key k.  As stated it fails when T[k] is     *)
(* null: both results are {}.  It holds with {} for a null T[k].           *)
(***************************************************************************)
SingleKeyGroupCall(k) ==
  /\ pc = "done" /\ call.op = "core" /\ call.maxDepth = Undefined
  /\ call.path = <<"[">> \o k \o <<"]">>

C17_SingleKeyGroupIsLiteral ==
  \A k \in PlainKeySet :
    SingleKeyGroupCall(k)
      => /\ res.kind = "ok"
         /\ CoreOn(k).out.kind = "ok"
         /\ Deep(heap, res.val) = CoreDeep(k)
         /\ TagAt(before, <<k>>) # "none"
              => Deep(heap, res.val) = RootOnly \cup Under(k, SubtreeAt(before, <<k>>))

C17_SingleKeyGroupIsNonNullLiteral ==
  \A k \in PlainKeySet :
    SingleKeyGroupCall(k)
      => /\ res.kind = "ok"
         /\ CoreOn(k).out.kind = "ok"
         /\ Deep(heap, res.val) = CoreDeep(k)
         /\ TagAt(before, <<k>>) \notin {"none", "null"}
              => Deep(heap, res.val) = RootOnly \cup Under(k, SubtreeAt(before, <<k>>))
         /\ TagAt(before, <<k>>) \in {"none", "null"}
              => Deep(heap, res.val) = RootOnly

\* T[k] is a container that holds something
C17_Witness ==
  \E k \in PlainKeySet :
    /\ SingleKeyGroupCall(k)
    /\ TagAt(before, <<k>>) = "obj"
    /\ ChildKeys(before, <<k>>) # {}
    /\ res.kind = "ok"

(***************************************************************************)
(* C20.  Core filter: every key path of the result is a key path of T, and *)
(* every scalar of the result is the value of T at the same key path.      *)
(* filter(T, "**") has the key "", which T has not, and the match of a key *)
(* holding a "." is stored along the key split in two.                     *)
(***************************************************************************)
C20_ResultIsSubShape ==
  (pc = "done" /\ call.op = "core" /\ res.kind = "ok")
    => \A e \in Deep(heap, res.val) :
         /\ TagAt(before, e[1]) # "none"
         /\ ~IsContainerTag(e[2]) => e \in before

(***************************************************************************)
(* C15.  Options-aware object filter, literal pattern: a key before the    *)
(* last whose value is a scalar or null makes the call fail with the       *)
(* non-traversable error.  The code has no such error in this variant: a   *)
(* number makes the `in` operator throw a TypeError, null is reported as a *)
(* path that does not exist.                                               *)
(***************************************************************************)
C15_NonContainerIsNonTraversable ==
  LiteralObjectCall
    => \A i \in 1..(Len(CallKeys) - 1) :
         TagAt(before, SubSeq(CallKeys, 1, i)) \in {"num", "null", "arr"}
           => res.kind = "NonTraversable"

(***************************************************************************)
(* C19.  Range-aware object filter: with a range s..e, s < e, the call     *)
(* returns; its result is made of the results of the expanded patterns     *)
(* that succeed and of nothing else, {} when none succeeds.  (LiteralDeep  *)
(* of a pattern that fails is the empty object.)                           *)
(***************************************************************************)
Succeeding(n, s, e) ==
  {i \in s..e : Literal(PreAt(n), i, PostAt(n, s, e)).out.kind = "ok"}

C19_RangeNeverThrowsOnMissing ==
  \A s \in RangeNums, e \in RangeNums :
    \A n \in CutPoints :
      (RangeShape(PreAt(n), s, e, PostAt(n, s, e)) /\ s < e)
        => /\ res.kind = "ok"
           /\ Deep(heap, res.val) =
                RootOnly \cup
                UNION {LiteralDeep(PreAt(n), i, PostAt(n, s, e)) : i \in s..e}

\* one expanded pattern fails, the other contributes
C19_Witness ==
  \E s \in RangeNums, e \in RangeNums :
    \E n \in CutPoints :
      /\ RangeShape(PreAt(n), s, e, PostAt(n, s, e)) /\ s + 1 = e
      /\ Cardinality(Succeeding(n, s, e)) = 1
      /\ res.kind = "ok"
      /\ Deep(heap, res.val) # RootOnly

(***************************************************************************)
(* C13.  Options-aware object filter, shallow = true, literal pattern that *)
(* exists: the value at the last key is an empty object for a plain        *)
(* object, a new array with the same elements in the same order for an     *)
(* array, the value itself for a scalar; every key before the last is an   *)
(* object holding only the next key.                                       *)
(***************************************************************************)
\* v[keys[1]][keys[2]]... on the heap h
RECURSIVE ValueAt(_, _, _)
ValueAt(h, v, keys) ==
  IF keys = <<>> THEN v
  ELSE IF ~IsRef(v) THEN Undefined
  ELSE ValueAt(h, Get(h, v, Head(keys)), Tail(keys))

ShallowLiteralCall ==
  /\ LiteralObjectCall
  /\ call.options.shallow = True
  /\ res.kind = "ok"

C13_ShallowStubsLastValue ==
  ShallowLiteralCall
    => LET sourceValue == ValueAt(HeapBefore, Ref(1), CallKeys)
           value == ValueAt(heap, res.val, CallKeys)
       IN /\ \A i \in 0..(Len(CallKeys) - 1) :
               LET node == ValueAt(heap, res.val, SubSeq(CallKeys, 1, i))
               IN /\ IsRef(node) /\ heap[node[2]].kind = "obj"
                  /\ OwnKeys(heap, node) = {CallKeys[i + 1]}
          /\ IF ~IsRef(sourceValue) THEN value = sourceValue
             ELSE /\ IsRef(value)
                  /\ value[2] \notin SourceContainers
                  /\ heap[value[2]] =
                       IF HeapBefore[sourceValue[2]].kind = "arr"
                       THEN HeapBefore[sourceValue[2]]
                       ELSE NewObject

\* a two-key path that ends at an array holding a container
C13_Witness ==
  /\ ShallowLiteralCall
  /\ Len(CallKeys) = 2
  /\ LET sourceValue == ValueAt(HeapBefore, Ref(1), CallKeys)
     IN /\ IsRef(sourceValue)
        /\ HeapBefore[sourceValue[2]].kind = "arr"
        /\ \E k \in OwnKeys(HeapBefore, sourceValue) :
             IsRef(HeapBefore[sourceValue[2]].val[k])

(***************************************************************************)
(* Calls with an array of paths: the elements of the array of the call     *)
(* made, and each element filtered on its own.                             *)
(***************************************************************************)
CallItems ==
  IF pc = "done" /\ call.op \in {"object", "range"} /\ call.path.isArray
  THEN call.path.items ELSE <<>>

\* the option in force for an element: its own, else the call's, else the default
Resolve(own, ofCall, default) ==
  IF own # Absent THEN own ELSE IF ofCall # Absent THEN ofCall ELSE default

ItemSeparator(it) == Resolve(it.separator, call.options.separator, Dot)
ItemWildcard(it) == Resolve(it.wildcard, call.options.wildcard, Star)
ItemShallow(it) == Resolve(it.shallow, call.options.shallow, False)

\* filter(T, path of the element, options in force for it), on the source as
\* it was before the call
ItemAlone(it) ==
  IF call.op = "object"
  THEN OptFilter(HeapBefore, Ref(1), Single(it.path),
                 Options(ItemSeparator(it), ItemWildcard(it), ItemShallow(it)))
  ELSE RangeFilter(HeapBefore, Ref(1), Single(it.path), call.options)

(***************************************************************************)
(* C11.  Options-aware object filter, path array: the options of a pair    *)
(* hold for its own pattern only; the fields it leaves out, and the other  *)
(* patterns, use the options of the call or the defaults.  Stated as: the  *)
(* call equals the call without options in which every element is paired   *)
(* with the three options in force for it.                                 *)
(***************************************************************************)
ExplicitItems ==
  [k \in 1..Len(CallItems) |->
     PairedItem(CallItems[k].path, ItemSeparator(CallItems[k]),
                ItemWildcard(CallItems[k]), ItemShallow(CallItems[k]))]

ExplicitCall ==
  OptFilter(HeapBefore, Ref(1), [isArray |-> TRUE, items |-> ExplicitItems],
            Options(Absent, Absent, Absent))

ObjectArrayCall == pc = "done" /\ call.op = "object" /\ call.path.isArray

C11_PairOptionsAreLocal ==
  ObjectArrayCall
    => /\ res.kind = ExplicitCall.out.kind
       /\ res.path = ExplicitCall.out.path
       /\ res.key = ExplicitCall.out.key
       /\ res.kind = "ok"
            => Deep(heap, res.val) = Deep(ExplicitCall.h, ExplicitCall.out.val)

\* a shallow pair first, then the same path alone: the container is cloned
C11_Witness ==
  /\ ObjectArrayCall
  /\ Len(CallItems) = 2
  /\ CallItems[1].paired /\ CallItems[1].shallow = True
  /\ ~CallItems[2].paired /\ CallItems[2].path = CallItems[1].path
  /\ call.options.shallow = Absent
  /\ res.kind = "ok"
  /\ \E p \in PathsOf(Deep(heap, res.val)) : Len(p) >= 2

(***************************************************************************)
(* C12.  Options-aware object filter, path array: when one element is the  *)
(* wildcard and every other element is a literal path that exists in T,    *)
(* the result deep-equals T.  A literal path through an array merges an    *)
(* object into the array: the result holds an object in its place.         *)
(***************************************************************************)
IsWildcardItem(it) == it.path = ItemWildcard(it)

C12_WildcardInArrayIsEverything ==
  (/\ ObjectArrayCall
   /\ \E k \in 1..Len(CallItems) : IsWildcardItem(CallItems[k])
   /\ \A k \in 1..Len(CallItems) :
        ~IsWildcardItem(CallItems[k]) => ItemAlone(CallItems[k]).out.kind = "ok")
    => /\ res.kind = "ok"
       /\ Deep(heap, res.val) = before

(***************************************************************************)
(* C18.  Object filters, path array: when an element fails on its own, the *)
(* call fails with the error of the first such element and returns         *)
(* nothing.                                                                *)
(***************************************************************************)
C18_FirstFailingPatternFailsTheCall ==
  \A k \in 1..Len(CallItems) :
    (/\ ItemAlone(CallItems[k]).out.kind # "ok"
     /\ \A j \in 1..(k - 1) : ItemAlone(CallItems[j]).out.kind = "ok")
      => res = ItemAlone(CallItems[k]).out

\* the first element succeeds with a container, the second one fails
C18_Witness ==
  /\ ObjectArrayCall
  /\ Len(CallItems) = 2
  /\ ItemAlone(CallItems[1]).out.kind = "ok"
  /\ CallItems[1].path = Ka
  /\ ItemAlone(CallItems[2]).out.kind = "PathNotFound"
  /\ res.kind = "PathNotFound"

(***************************************************************************)
(* deepMerge on its own: the state holds the two arguments under the keys  *)
(* t and s of one root, and a call merges them with either variant         *)
(***************************************************************************)
Kt == <<"t">>
Ks == <<"s">>
MergeKeys == <<Ka, K0>>
MergeArguments == ArrayTreesOver(MergeKeys, CoreLeaves, MaxNodes - 2)
MergeTrees ==
  {RootOnly \cup Under(Kt, t) \cup Under(Ks, s) : t \in MergeArguments, s \in MergeArguments}

\* deepMerge(target, source) of the options-aware filter
MergeCall ==
  /\ pc = "ready"
  /\ LET r == OptDeepMerge(heap, Get(heap, src, Kt), Get(heap, src, Ks)) IN
       /\ heap' = r.h
       /\ res' = Returned(r.v)
  /\ call' = [op |-> "merge"]
  /\ pc' = "done"
  /\ UNCHANGED <<src, before>>

\* deepMerge(target, source) of the range-aware filter
RangeMergeCall ==
  /\ pc = "ready"
  /\ LET r == RangeDeepMerge(heap, Get(heap, src, Kt), Get(heap, src, Ks)) IN
       /\ heap' = r.h
       /\ res' = Returned(r.v)
  /\ call' = [op |-> "rangeMerge"]
  /\ pc' = "done"
  /\ UNCHANGED <<src, before>>

InitMerge == InitWith(MergeTrees)

NextMerge == MergeCall \/ RangeMergeCall

SpecMerge == InitMerge /\ [][NextMerge]_vars

(***************************************************************************)
(* Both filters on sources with arrays: one core call, or one call of the  *)
(* options-aware filter with a single path and no options                  *)
(***************************************************************************)
OpaqueTokens == {Ka, K0, Star, StarStar, <<"[", "0", "|", "1", "]">>}
OpaquePatterns ==
  OpaqueTokens \cup {Join(<<t, u>>, Dot) : t \in OpaqueTokens, u \in OpaqueTokens}

InitOpaque == InitWith(ShallowTrees)

NextOpaque ==
  \/ \E p \in OpaquePatterns : CoreCall(p, Undefined)
  \/ \E p \in ShallowPaths : ObjectCall(p, Options(Absent, Absent, Absent))

SpecOpaque == InitOpaque /\ [][NextOpaque]_vars

(***************************************************************************)
(* The match list of the core call made, computed on the source as it was  *)
(* before the call.                                                        *)
(***************************************************************************)
CorePath == IF pc = "done" /\ call.op = "core" THEN call.path ELSE <<>>

CallMatches ==
  getMatches(HeapBefore, Ref(1), CorePath, ExactDepth(CorePath), CorePath = Star)

IsLiteralSegment(segment) ==
  segment # Star /\ segment # StarStar /\ ~Includes(segment, <<"|">>)

(***************************************************************************)
(* C21.  Core matcher: when the last segment of the pattern is a literal   *)
(* key, the value of a match is the source value at its path, never a new  *)
(* empty object.  The code stubs every container match as soon as any      *)
(* segment of the pattern is "*".                                          *)
(***************************************************************************)
C21_LiteralEndKeepsFullValue ==
  (/\ pc = "done" /\ call.op = "core"
   /\ Lex(CorePath) # <<>>
   /\ IsLiteralSegment(Lex(CorePath)[Len(Lex(CorePath))]))
    => \A i \in 1..Len(CallMatches.matches) :
         LET value == CallMatches.matches[i].value
         IN IsRef(value) => value[2] \in SourceContainers

\* no key of the source has a "." in it
NoDotInSource == \A p \in PathsOf(before) : \A n \in 1..Len(p) : ~HasDot(p[n])

\* The same without a "*" in the pattern: the value is the very node of the
\* source at the path.  With a "*" somewhere in the pattern a container is
\* matched as a new empty object.
C21_LiteralEndKeepsFullValueWithoutWildcard ==
  (/\ pc = "done" /\ call.op = "core"
   /\ Lex(CorePath) # <<>>
   /\ IsLiteralSegment(Lex(CorePath)[Len(Lex(CorePath))]))
    => \A i \in 1..Len(CallMatches.matches) :
         LET value == CallMatches.matches[i].value
             keys == Split(CallMatches.matches[i].path, Dot)
         IN IF \E n \in 1..Len(Lex(CorePath)) : Lex(CorePath)[n] = Star
            THEN IsRef(value) => /\ value[2] \notin SourceContainers
                                 /\ OwnKeys(CallMatches.h, value) = {}
                                 /\ NoDotInSource
                                      => IsContainerTag(TagAt(before, keys))
            ELSE /\ IsRef(value) => value[2] \in SourceContainers
                 /\ NoDotInSource => value = ValueAt(HeapBefore, Ref(1), keys)

\* "*.k" matches a container that has something in it, and "**.k" another
C21_Witness ==
  \E k \in PlainKeySet :
    /\ pc = "done" /\ call.op = "core"
    /\ call.path \in {Join(<<Star, k>>, Dot), Join(<<StarStar, k>>, Dot)}
    /\ \E c \in PlainKeySet : ChildKeys(before, <<c, k>>) # {}
    /\ Len(CallMatches.matches) > 0
    /\ res.kind = "ok"

(***************************************************************************)
(* C22.  Core filter: filter(T, "*.k") has as top-level keys the keys c of *)
(* T whose value is a container with key k, result[c][k] being an empty    *)
(* object when T[c][k] is a container; the same for "a.*.k" below a.  As   *)
(* stated it fails when T[c][k] is null: c is left out.  It holds of the   *)
(* keys c with a T[c][k] that is not null, when no key next to c has a "." *)
(* in it.                                                                  *)
(***************************************************************************)
\* the pattern of the call made is pre.*.k
WildcardThenKeyCall(pre, k) ==
  /\ pc = "done" /\ call.op = "core" /\ call.maxDepth = Undefined
  /\ call.path = Join(pre \o <<Star, k>>, Dot)

\* what the result holds for the children cs of the container at pre
WildcardThenKeyResult(pre, k, cs) ==
  IF cs = {} THEN RootOnly
  ELSE RootOnly
       \cup {<<SubSeq(pre, 1, n), "obj", 0>> : n \in 1..Len(pre)}
       \cup {<<pre \o <<c>>, "obj", 0>> : c \in cs}
       \cup {LET e == CHOOSE x \in before : x[1] = pre \o <<c, k>>
             IN IF IsContainerTag(e[2]) THEN <<e[1], "obj", 0>> ELSE e : c \in cs}

Prefixes == {<<>>, <<Ka>>}

AnyDepthKeyCall(k) ==
  /\ pc = "done" /\ call.op = "core"
  /\ call.path = Join(<<StarStar, k>>, Dot)

MatchedPaths == {CallMatches.matches[i].path : i \in 1..Len(CallMatches.matches)}

C23_AnyDepthKeyMatchesEveryHolder ==
  \A k \in PlainKeySet :
    AnyDepthKeyCall(k)
      => MatchedPaths =
           {Join(e[1] \o <<k>>, Dot) :
              e \in {x \in before : /\ IsContainerTag(x[2])
                                    /\ TagAt(before, x[1] \o <<k>>) # "none"}}

C23_AnyDepthKeyMatchesNonNullHolders ==
  \A k \in PlainKeySet :
    AnyDepthKeyCall(k)
      => MatchedPaths =
           {Join(e[1] \o <<k>>, Dot) :
              e \in {x \in before : /\ IsContainerTag(x[2])
                                    /\ TagAt(before, x[1] \o <<k>>) \notin {"none", "null"}}}

\* k is held at depth zero, one and two
C23_Witness ==
  \E k \in PlainKeySet :
    /\ AnyDepthKeyCall(k)
    /\ {<<k>>, <<k, k>>, <<k, k, k>>} \subseteq PathsOf(before)
    /\ Cardinality(MatchedPaths) = 3

(***************************************************************************)
(* C26.  Core matcher: two matches of one match list with the same key     *)
(* path carry the same value.  A match path is the keys joined with ".",   *)
(* so a key with a "." in it and a nested key give one path to two nodes.  *)
(***************************************************************************)
SameValue(h, v, w) ==
  \/ v = w
  \/ IsRef(v) /\ IsRef(w) /\ Deep(h, v) = Deep(h, w)

C26_SamePathSameValue ==
  (pc = "done" /\ call.op = "core")
    => \A i, j \in 1..Len(CallMatches.matches) :
         CallMatches.matches[i].path = CallMatches.matches[j].path
           => SameValue(CallMatches.h, CallMatches.matches[i].value,
                        CallMatches.matches[j].value)

(***************************************************************************)
(* C27.  No filter call changes its source: after the call has returned or *)
(* thrown, T has the keys and values it had before, at every depth.  The   *)
(* core projector walks into nodes of T that an earlier match put into the *)
(* result and writes there.                                                *)
(***************************************************************************)
C27_SourceIsUnchanged ==
  pc = "done" => Deep(heap, src) = before

(***************************************************************************)
(* C29.  Core filter: every match whose path is not longer than maxDepth   *)
(* has an entry at its key path in the result.  A later write of an empty  *)
(* object at a shorter path replaces the object an earlier, longer path    *)
(* was written into.                                                       *)
(***************************************************************************)
C29_NoMatchIsLost ==
  (pc = "done" /\ call.op = "core" /\ res.kind = "ok")
    => \A i \in 1..Len(CallMatches.matches) :
         LET keys == Split(CallMatches.matches[i].path, Dot)
         IN (call.maxDepth = Undefined \/ Len(keys) <= call.maxDepth[2])
              => TagAt(Deep(heap, res.val), keys) # "none"

(***************************************************************************)
(* C24.  deepMerge of the options-aware filter: for a key of both          *)
(* arguments the output holds the recursive merge when both values are     *)
(* plain objects, and the value of the source otherwise.  The code merges  *)
(* whenever the value of the source is an object and the key is in the     *)
(* target, whatever the value of the target is.                            *)
(***************************************************************************)
MergeTarget == SubtreeAt(before, <<Kt>>)
MergeSource == SubtreeAt(before, <<Ks>>)

MergeKeepsLaterValue(op) ==
  (pc = "done" /\ call.op = op)
    => \A key \in ChildKeys(MergeTarget, <<>>) \cap ChildKeys(MergeSource, <<>>) :
         SubtreeAt(Deep(heap, res.val), <<key>>) =
           IF TagAt(MergeTarget, <<key>>) = "obj" /\ TagAt(MergeSource, <<key>>) = "obj"
           THEN MergeDeep(SubtreeAt(MergeTarget, <<key>>), SubtreeAt(MergeSource, <<key>>))
           ELSE SubtreeAt(MergeSource, <<key>>)

C24_MergeKeepsLaterValue == MergeKeepsLaterValue("merge")

(***************************************************************************)
(* C25.  Arrays are opaque leaves: no match of the core matcher lies below *)
(* an array of the source, and a literal path of the object filter that    *)
(* goes on past an array gives no result.  Both walk an array by its       *)
(* indices as they walk an object by its keys.                             *)
(***************************************************************************)
\* the keys name a place strictly below an array of the source
BelowArray(keys) ==
  \E n \in 1..(Len(keys) - 1) : TagAt(before, SubSeq(keys, 1, n)) = "arr"

CoreLeavesArraysAlone ==
  (pc = "done" /\ call.op = "core")
    => \A i \in 1..Len(CallMatches.matches) :
         ~BelowArray(Split(CallMatches.matches[i].path, Dot))

ObjectLeavesArraysAlone ==
  (LiteralObjectCall /\ BelowArray(Split(CallPath, CallSeparator)))
    => res.kind # "ok"

C25_ArraysAreOpaque == CoreLeavesArraysAlone /\ ObjectLeavesArraysAlone

(***************************************************************************)
(* C28.  Options-aware object filter, array of two literal paths p and q   *)
(* that exist in T: the result of [p, q] deep-equals that of [q, p], and   *)
(* the result of [p, p] deep-equals that of p.  With an array in T the     *)
(* merge keeps an array when it comes second and a plain object made of    *)
(* its elements when it comes first.                                       *)
(***************************************************************************)
\* the call made is filter(T, [p, q], options) with two literal paths found in T
TwoLiteralsCall ==
  /\ ObjectArrayCall
  /\ Len(CallItems) = 2
  /\ \A k \in 1..2 : /\ ~IsWildcardItem(CallItems[k])
                     /\ ItemAlone(CallItems[k]).out.kind = "ok"

\* filter(T, [q, p], options) on the source as it was before the call
SwappedCall ==
  OptFilter(HeapBefore, Ref(1),
            [isArray |-> TRUE, items |-> <<CallItems[2], CallItems[1]>>], call.options)

C28_ArrayOrderIsIrrelevant ==
  TwoLiteralsCall
    => /\ res.kind = "ok"
       /\ SwappedCall.out.kind = "ok"
       /\ Deep(heap, res.val) = Deep(SwappedCall.h, SwappedCall.out.val)
       /\ CallItems[1] = CallItems[2]
            => Deep(heap, res.val) =
                 Deep(ItemAlone(CallItems[1]).h, ItemAlone(CallItems[1]).out.val)

(***************************************************************************)
(* getMatches step by step.  The stack holds what is left to do, first     *)
(* thing first: activations of traverse still to be entered and matches    *)
(* still to be pushed.  One step enters the first activation and puts its  *)
(* recursive calls, in the order of the code, in its place.                *)
(***************************************************************************)
Activation(current, currentPath, segmentIndex) ==
  [kind |-> "call", current |-> current, currentPath |-> currentPath,
   segmentIndex |-> segmentIndex]

\* results.push({path, value})
Pushing(path, value) == [kind |-> "push", path |-> path, value |-> value]

\* a faulty variant: the first call of the "**" branch stays where it is
SameSegmentStaying(current, currentPath, segmentIndex) == Activation(current, currentPath, segmentIndex)
\* the first call of the "**" branch: same node, next segment
SameNodeNextSegment(current, currentPath, segmentIndex) == Activation(current, currentPath, segmentIndex + 1)

\* the calls of the loop of the "**" branch
RECURSIVE DoubleCalls(_, _, _, _, _)
DoubleCalls(c, current, currentPath, segmentIndex, keys) ==
  IF keys = <<>> THEN <<>>
  ELSE LET key == Head(keys)
           child == Get(c.h, current, key)
       IN <<Activation(child, Append(currentPath, key), segmentIndex + 1)>> \o
          (IF IsObjectLike(child)
           THEN <<Activation(child, Append(currentPath, key), segmentIndex)>>
           ELSE <<>>) \o
          DoubleCalls(c, current, currentPath, segmentIndex, Tail(keys))

\* the calls of the loop of the "*" and key-list branches
EachCalls(c, current, currentPath, segmentIndex, keys) ==
  [i \in 1..Len(keys) |->
     Activation(Get(c.h, current, keys[i]), Append(currentPath, keys[i]),
                segmentIndex + 1)]

\* what one activation of traverse does, in order
TraverseBody(c, current, currentPath, segmentIndex) ==
  IF IsNullish(current) THEN <<>>
  ELSE IF segmentIndex >= Len(c.segments)
  THEN IF ~c.exactDepth \/ Len(currentPath) = Len(c.segments)
       THEN <<Pushing(Join(currentPath, Dot), MatchValue(c, current))>>
       ELSE <<>>
  ELSE LET segment == c.segments[segmentIndex + 1] IN
       IF segment = StarStar
       THEN <<SameNodeNextSegment(current, currentPath, segmentIndex)>> \o
            (IF IsObjectLike(current)
             THEN DoubleCalls(c, current, currentPath, segmentIndex, KeysOf(c.h, current))
             ELSE <<>>)
       ELSE IF segment = Star
       THEN IF IsObjectLike(current)
            THEN EachCalls(c, current, currentPath, segmentIndex, KeysOf(c.h, current))
            ELSE <<>>
       ELSE IF Includes(segment, <<"|">>)
       THEN IF IsObjectLike(current)
            THEN EachCalls(c, current, currentPath, segmentIndex,
                           KeyListKeys(c, current, segment))
            ELSE <<>>
       ELSE IF IsObjectLike(current) /\ HasKey(c.h, current, segment)
       THEN <<Activation(Get(c.h, current, segment), Append(currentPath, segment),
                         segmentIndex + 1)>>
       ELSE <<>>

\* the segments and flags of the getMatches call under way, as filter sets them
MatchContext(path) ==
  [h |-> heap, segments |-> Lex(path), exactDepth |-> ExactDepth(path),
   shallowMatch |-> path = Star]

TraverseTrees == TreesOver(PlainKeys, CoreLeaves, MaxNodes - 1)
TraverseTokens == {Ka, Star, StarStar}
TraversePatterns ==
  TraverseTokens \cup {Join(<<t, u>>, Dot) : t \in TraverseTokens, u \in TraverseTokens}
  \cup {Join(<<StarStar, Ka, StarStar>>, Dot), <<"[", "a", "|", "b", "]">>}

\* getMatches is called: traverse(obj, [], 0) is all that is left to do
StartMatches(path) ==
  /\ pc = "ready"
  /\ call' = [op |-> "getMatches", path |-> path,
              stack |-> <<Activation(src, <<>>, 0)>>]
  /\ res' = Returned(<<>>)
  /\ pc' = "running"
  /\ UNCHANGED <<heap, src, before>>

\* the first thing left to do is an activation of traverse: it is entered
EnterTraverse ==
  /\ pc = "running"
  /\ call.stack # <<>>
  /\ Head(call.stack).kind = "call"
  /\ LET f == Head(call.stack) IN
       call' = [call EXCEPT !.stack =
                  TraverseBody(MatchContext(call.path), f.current, f.currentPath,
                               f.segmentIndex) \o Tail(call.stack)]
  /\ UNCHANGED <<heap, src, before, res, pc>>

\* the first thing left to do is a match: it is pushed
PushMatch ==
  /\ pc = "running"
  /\ call.stack # <<>>
  /\ Head(call.stack).kind = "push"
  /\ res' = Returned(Append(res.val, [path |-> Head(call.stack).path,
                                      value |-> Head(call.stack).value]))
  /\ call' = [call EXCEPT !.stack = Tail(call.stack)]
  /\ UNCHANGED <<heap, src, before, pc>>

\* nothing is left to do: getMatches returns results
ReturnMatches ==
  /\ pc = "running"
  /\ call.stack = <<>>
  /\ pc' = "done"
  /\ UNCHANGED <<heap, src, before, call, res>>

InitTraverse == InitWith(TraverseTrees)

NextTraverse ==
  \/ \E path \in TraversePatterns : StartMatches(path)
  \/ EnterTraverse
  \/ PushMatch
  \/ ReturnMatches

\* a call that has started keeps running: there is one thread
SpecTraverse ==
  InitTraverse /\ [][NextTraverse]_vars
  /\ WF_vars(EnterTraverse \/ PushMatch \/ ReturnMatches)

(***************************************************************************)
(* C30.  Core matcher: on every finite acyclic tree and for every pattern, *)
(* also with several "**", getMatches terminates with a finite match list, *)
(* the list traverse computes; every recursive call is for a later segment *)
(* or, for the same segment, for a child of the node.                      *)
(***************************************************************************)
IsChildOf(parent, child) ==
  /\ IsRef(parent)
  /\ \E key \in OwnKeys(heap, parent) : Get(heap, parent, key) = child

\* the call g made by the activation f advances the segment or descends
Progresses(f, g) ==
  \/ g.segmentIndex > f.segmentIndex
  \/ g.segmentIndex = f.segmentIndex /\ IsChildOf(f.current, g.current)

C30_TraverseTerminates ==
  /\ (pc = "running") ~> (pc = "done")
  /\ [][EnterTraverse =>
          \A i \in 1..(Len(call'.stack) - Len(call.stack) + 1) :
            call'.stack[i].kind = "call" => Progresses(Head(call.stack), call'.stack[i])]_vars
  /\ [](pc = "done" =>
          res.val = traverse(MatchContext(call.path), src, <<>>, 0))

\* a pattern with two "**" has run to its end on a tree three levels deep
C30_Witness ==
  /\ pc = "done"
  /\ call.path = Join(<<StarStar, StarStar>>, Dot)
  /\ \E p \in PathsOf(before) : Len(p) = 3
  /\ Len(res.val) > 3

====
